---- MODULE Spec2Model ----
(***************************************************************************)
(* Occlusion-aware visible-region computation of core/get_session.py:      *)
(* rect_intersect, rect_subtract and the three get_visible_windows_*       *)
(* pipelines.                                                              *)
(*                                                                         *)
(* A rectangle is the record [x, y, w, h] of the Python dict               *)
(* {'x','y','w','h'}.  A Python list is a sequence.  The optional result   *)
(* of rect_intersect is a sequence of length 0 (None) or 1 (the dict).     *)
(***************************************************************************)
EXTENDS Integers, Sequences, FiniteSets

\* The bounded screen: x coordinates 0..MaxX, y coordinates 0..MaxY.
MaxX == 4
MaxY == 3
\* Longest `covered` list handed to rect_subtract on its own.
MaxCovers == 2
\* Most windows the window lister yields in one pipeline pass.
MaxWins == 3

Max(a, b) == IF a >= b THEN a ELSE b
Min(a, b) == IF a <= b THEN a ELSE b

Rect(x, y, w, h) == [x |-> x, y |-> y, w |-> w, h |-> h]

None == <<>>

\* Variant of rect_intersect: the comparisons are not strict.
rect_intersect_closed(a, b) ==
    LET x1 == Max(a.x, b.x)
        y1 == Max(a.y, b.y)
        x2 == Min(a.x + a.w, b.x + b.w)
        y2 == Min(a.y + a.h, b.y + b.h)
    IN  IF x1 <= x2 /\ y1 <= y2
        THEN <<Rect(x1, y1, x2 - x1, y2 - y1)>>
        ELSE None

\* rect_intersect(a, b): the overlap of a and b, or None.
rect_intersect(a, b) ==
    LET x1 == Max(a.x, b.x)
        y1 == Max(a.y, b.y)
        x2 == Min(a.x + a.w, b.x + b.w)
        y2 == Min(a.y + a.h, b.y + b.h)
    IN  IF x1 < x2 /\ y1 < y2
        THEN <<Rect(x1, y1, x2 - x1, y2 - y1)>>
        ELSE None

\* Variants of the strips: the top strip never emitted, or emitted on a
\* non-strict guard; the bottom strip as high as r; the left and right strips
\* over the full height of r.
TopStripNever(r, inter) == <<>>

TopStripNonStrict(r, inter) ==
    IF inter.y >= r.y
    THEN <<Rect(r.x, r.y, r.w, inter.y - r.y)>>
    ELSE <<>>

BottomStripTooHigh(r, inter) ==
    IF inter.y + inter.h < r.y + r.h
    THEN <<Rect(r.x, inter.y + inter.h, r.w, r.h)>>
    ELSE <<>>

LeftStripFullHeight(r, inter) ==
    IF inter.x > r.x
    THEN <<Rect(r.x, r.y, inter.x - r.x, r.h)>>
    ELSE <<>>

RightStripFullHeight(r, inter) ==
    IF inter.x + inter.w < r.x + r.w
    THEN <<Rect(inter.x + inter.w, r.y, (r.x + r.w) - (inter.x + inter.w), r.h)>>
    ELSE <<>>

\* The four residual strips of r around inter (inter = the dict returned by
\* rect_intersect(r, c)), each a list of zero or one rectangle.
TopStrip(r, inter) ==
    IF inter.y > r.y
    THEN <<Rect(r.x, r.y, r.w, inter.y - r.y)>>
    ELSE <<>>

BottomStrip(r, inter) ==
    LET y1  == r.y + r.h
        iy1 == inter.y + inter.h
    IN  IF iy1 < y1
        THEN <<Rect(r.x, iy1, r.w, y1 - iy1)>>
        ELSE <<>>

LeftStrip(r, inter) ==
    LET y0  == r.y
        y1  == r.y + r.h
        iy0 == inter.y
        iy1 == inter.y + inter.h
    IN  IF inter.x > r.x
        THEN <<Rect(r.x, Max(y0, iy0), inter.x - r.x,
                    Min(y1, iy1) - Max(y0, iy0))>>
        ELSE <<>>

RightStrip(r, inter) ==
    LET x1  == r.x + r.w
        y0  == r.y
        y1  == r.y + r.h
        ix1 == inter.x + inter.w
        iy0 == inter.y
        iy1 == inter.y + inter.h
    IN  IF ix1 < x1
        THEN <<Rect(ix1, Max(y0, iy0), x1 - ix1,
                    Min(y1, iy1) - Max(y0, iy0))>>
        ELSE <<>>

\* Variant of the inner loop's body: a rectangle the cover misses is dropped.
SubtractPieceDropsMissed(r, c) ==
    LET inter == rect_intersect(r, c)
    IN  IF inter = None
        THEN <<>>
        ELSE TopStrip(r, inter[1]) \o BottomStrip(r, inter[1])
             \o LeftStrip(r, inter[1]) \o RightStrip(r, inter[1])

\* Body of the inner loop for one working rectangle r against the cover c:
\* what it appends to new_remaining.
SubtractPiece(r, c) ==
    LET inter == rect_intersect(r, c)
    IN  IF inter = None
        THEN <<r>>
        ELSE TopStrip(r, inter[1]) \o BottomStrip(r, inter[1])
             \o LeftStrip(r, inter[1]) \o RightStrip(r, inter[1])

\* The inner loop over `remaining`: new_remaining before the filter.
RECURSIVE NewRemaining(_, _)
NewRemaining(remaining, c) ==
    IF remaining = <<>>
    THEN <<>>
    ELSE SubtractPiece(Head(remaining), c) \o NewRemaining(Tail(remaining), c)

NonDegenerate(r) == r.w > 0 /\ r.h > 0

\* Variant of the filter: rectangles one pixel wide or high are dropped too.
Thick(r) == r.w > 1 /\ r.h > 1

SubtractStepDropsThin(remaining, c) ==
    SelectSeq(NewRemaining(remaining, c), Thick)

\* One iteration of the outer loop: the inner loop, then the comprehension
\* that drops the rectangles with w <= 0 or h <= 0.
SubtractStep(remaining, c) ==
    SelectSeq(NewRemaining(remaining, c), NonDegenerate)

\* rect_subtract(rect, covered), started from the working set `remaining`.
RECURSIVE SubtractFrom(_, _)
SubtractFrom(remaining, covered) ==
    IF covered = <<>>
    THEN remaining
    ELSE SubtractFrom(SubtractStep(remaining, Head(covered)), Tail(covered))

rect_subtract(rect, covered) == SubtractFrom(<<rect>>, covered)

(***************************************************************************)
(* Window records handed over by the platform's window lister.             *)
(*   title    : the title text, a sequence of characters (on Linux: what   *)
(*              follows the sixth field of the wmctrl line).               *)
(*   geometry : the rectangle read from the record.                        *)
(*   shown    : Darwin  - kCGWindowBounds is non-empty and                 *)
(*                        kCGWindowIsOnscreen is true;                     *)
(*              Linux   - the four geometry fields parse as integers;      *)
(*              Windows - w.isVisible.                                     *)
(***************************************************************************)
Space == " "

IsSpace(ch) == ch = Space

\* str.lstrip() / str.rstrip() / str.strip() on a sequence of characters.
RECURSIVE LStrip(_)
LStrip(t) ==
    IF t # <<>> /\ IsSpace(Head(t)) THEN LStrip(Tail(t)) ELSE t

RECURSIVE RStrip(_)
RStrip(t) ==
    IF t # <<>> /\ IsSpace(t[Len(t)]) THEN RStrip(SubSeq(t, 1, Len(t) - 1)) ELSE t

Strip(t) == RStrip(LStrip(t))

\* line.split(None, 6): the six leading fields are always present in the
\* model; the seventh part is the rest of the line without its leading
\* whitespace, and is missing when nothing is left.
SplitTitle(t) == IF LStrip(t) = <<>> THEN <<>> ELSE <<LStrip(t)>>

\* Variant of the Darwin conditions: only empty geometries are rejected.
RejectMacosEmptyOnly(win) ==
    \/ ~win.shown
    \/ win.title = <<>>
    \/ win.geometry.w <= 0
    \/ win.geometry.h <= 0

\* The `continue` conditions of the three loops.
RejectMacos(win) ==
    \/ ~win.shown
    \/ win.title = <<>>
    \/ win.geometry.w <= 1
    \/ win.geometry.h <= 1

RejectLinux(win) ==
    \/ SplitTitle(win.title) = <<>>
    \/ ~win.shown
    \/ win.geometry.w <= 1
    \/ win.geometry.h <= 1
    \/ Strip(SplitTitle(win.title)[1]) = <<>>

RejectWindows(win) ==
    \/ ~win.shown
    \/ win.geometry.w <= 1
    \/ win.geometry.h <= 1

\* The title stored in the emitted entry.
TitleMacos(win) == win.title
TitleLinux(win) == SplitTitle(win.title)[1]
TitleWindows(win) == win.title

Reject(p, win) ==
    CASE p = "Darwin"  -> RejectMacos(win)
      [] p = "Linux"   -> RejectLinux(win)
      [] p = "Windows" -> RejectWindows(win)

EntryTitle(p, win) ==
    CASE p = "Darwin"  -> TitleMacos(win)
      [] p = "Linux"   -> TitleLinux(win)
      [] p = "Windows" -> TitleWindows(win)

\* The dict appended to visible_windows (id: the window's position in capture
\* order stands for its identifier; owner carries nothing the pipeline reads).
Entry(id, title, geom, uncovered) ==
    [id |-> id, title |-> title, geometry |-> geom, uncovered_regions |-> uncovered]

(***************************************************************************)
(* State.                                                                  *)
(*   call            : the entry point being run: a pass of                *)
(*                     get_visible_windows, or rect_subtract called on its *)
(*                     own arguments.                                      *)
(*   system          : platform.system(), fixed for the pass.              *)
(*   seen            : number of windows the loop has consumed.            *)
(*   covered         : the pipeline's `covered` accumulator.               *)
(*   visible_windows : the pipeline's output list.                         *)
(*   passed          : history of the pass: for every window that got past *)
(*                     the `continue` conditions, in capture order, its    *)
(*                     id, its geometry, the value of `covered` when it    *)
(*                     was processed and its rect_subtract result.         *)
(*   rect, sub_covered, remaining : a call of rect_subtract on its own:    *)
(*       its argument `rect`, the prefix of its argument `covered` that    *)
(*       the outer loop has consumed, and `remaining` after that prefix.   *)
(***************************************************************************)
VARIABLES call, system, seen, covered, visible_windows, passed,
          rect, sub_covered, remaining

vars == <<call, system, seen, covered, visible_windows, passed,
          rect, sub_covered, remaining>>

\* Rectangles with corners on the grid, w >= 0 and h >= 0.
GridRects ==
    { Rect(x, y, w, h) : x \in 0..MaxX, y \in 0..MaxY,
                         w \in 0..MaxX, h \in 0..MaxY }

InGrid(r) == r.x + r.w <= MaxX /\ r.y + r.h <= MaxY

\* Arguments of rect_subtract: every non-degenerate rectangle of the grid and
\* the degenerate ones anchored at (1, 1).
SubRects ==
    { r \in GridRects : InGrid(r) /\ (NonDegenerate(r) \/ (r.x = 1 /\ r.y = 1)) }

\* Window geometries: every rectangle of the grid wider and higher than one
\* pixel, and the thinner ones anchored at (0, 0).
WinRects ==
    { r \in GridRects : InGrid(r) /\ ((r.w > 1 /\ r.h > 1) \/ (r.x = 0 /\ r.y = 0)) }

Titles == { <<>>, <<Space>>, <<"a">> }

Windows == [title : Titles, geometry : WinRects, shown : BOOLEAN]

Systems == {"Darwin", "Linux", "Windows"}

\* get_visible_windows(): covered = [] ; visible_windows = []
PipeInit ==
    /\ call = "get_visible_windows"
    /\ system \in Systems
    /\ seen = 0
    /\ covered = <<>>
    /\ visible_windows = <<>>
    /\ passed = <<>>
    /\ rect = Rect(0, 0, 0, 0)
    /\ sub_covered = <<>>
    /\ remaining = <<>>

\* rect_subtract(rect, covered): remaining = [rect]
SubInit ==
    /\ call = "rect_subtract"
    /\ rect \in SubRects
    /\ sub_covered = <<>>
    /\ remaining = <<rect>>
    /\ system = "Linux"
    /\ seen = 0
    /\ covered = <<>>
    /\ visible_windows = <<>>
    /\ passed = <<>>

Init == PipeInit \/ SubInit

\* Variant of the loop body: covered.append(geom) outside `if uncovered:`.
IterateCoversAlways(p, win) ==
    /\ seen < MaxWins
    /\ seen' = seen + 1
    /\ IF Reject(p, win)
       THEN UNCHANGED <<covered, visible_windows, passed>>
       ELSE LET geom == win.geometry
                uncovered == rect_subtract(geom, covered)
            IN  /\ passed' = Append(passed, [id |-> seen + 1, geometry |-> geom,
                                             covering |-> covered,
                                             uncovered_regions |-> uncovered])
                /\ covered' = Append(covered, geom)
                /\ IF uncovered # <<>>
                   THEN visible_windows' =
                              Append(visible_windows,
                                     Entry(seen + 1, EntryTitle(p, win), geom, uncovered))
                   ELSE UNCHANGED visible_windows
    /\ UNCHANGED <<call, system, rect, sub_covered, remaining>>

\* One iteration of the loop of get_visible_windows_<system> on the window
\* `win`, the next one in capture order.
Iterate(p, win) ==
    /\ seen < MaxWins
    /\ seen' = seen + 1
    /\ IF Reject(p, win)
       THEN UNCHANGED <<covered, visible_windows, passed>>
       ELSE LET geom == win.geometry
                uncovered == rect_subtract(geom, covered)
            IN  /\ passed' = Append(passed, [id |-> seen + 1, geometry |-> geom,
                                             covering |-> covered,
                                             uncovered_regions |-> uncovered])
                /\ IF uncovered # <<>>
                   THEN /\ visible_windows' =
                              Append(visible_windows,
                                     Entry(seen + 1, EntryTitle(p, win), geom, uncovered))
                        /\ covered' = Append(covered, geom)
                   ELSE UNCHANGED <<covered, visible_windows>>
    /\ UNCHANGED <<call, system, rect, sub_covered, remaining>>

StepMacos ==
    /\ call = "get_visible_windows"
    /\ system = "Darwin"
    /\ \E win \in Windows : Iterate("Darwin", win)

StepLinux ==
    /\ call = "get_visible_windows"
    /\ system = "Linux"
    /\ \E win \in Windows : Iterate("Linux", win)

StepWindows ==
    /\ call = "get_visible_windows"
    /\ system = "Windows"
    /\ \E win \in Windows : Iterate("Windows", win)

\* for c in covered: one iteration of the outer loop of rect_subtract, c being
\* the next element of the argument list.
SubtractCover ==
    /\ call = "rect_subtract"
    /\ Len(sub_covered) < MaxCovers
    /\ \E c \in SubRects :
        /\ remaining' = SubtractStep(remaining, c)
        /\ sub_covered' = Append(sub_covered, c)
    /\ UNCHANGED <<call, rect, system, seen, covered, visible_windows, passed>>

Next == StepMacos \/ StepLinux \/ StepWindows \/ SubtractCover

Spec == Init /\ [][Next]_vars

(***************************************************************************)
(* Vocabulary of the properties: rectangles as sets of unit pixels.        *)
(***************************************************************************)
\* The pixels of r; <<i, j>> is the unit square [i, i+1) x [j, j+1).
Pixels(r) ==
    { <<i, j>> : i \in r.x .. (r.x + r.w - 1), j \in r.y .. (r.y + r.h - 1) }

PixelsOf(rs) == UNION { Pixels(rs[i]) : i \in 1..Len(rs) }

RECURSIVE AreaSum(_)
AreaSum(rs) ==
    IF rs = <<>> THEN 0 ELSE Head(rs).w * Head(rs).h + AreaSum(Tail(rs))

Positive(r) == r.w > 0 /\ r.h > 0

AllPositive(rs) == \A i \in 1..Len(rs) : Positive(rs[i])

Inside(r, box) ==
    /\ r.x >= box.x
    /\ r.y >= box.y
    /\ r.x + r.w <= box.x + box.w
    /\ r.y + r.h <= box.y + box.h

IsPrefix(s, t) == Len(s) <= Len(t) /\ SubSeq(t, 1, Len(s)) = s

InSub == call = "rect_subtract"
InPipe == call = "get_visible_windows"

\* `out` is exactly box minus the covers, every pixel counted once.
Partitions(out, box, covers) ==
    /\ PixelsOf(out) = Pixels(box) \ PixelsOf(covers)
    /\ AreaSum(out) + Cardinality(Pixels(box) \cap PixelsOf(covers)) = box.w * box.h

PairwiseApart(rs) ==
    \A i, j \in 1..Len(rs) : i # j => rect_intersect(rs[i], rs[j]) = None

\* C1 (partition): for a non-degenerate rect and non-degenerate covers, the
\* rectangles rect_subtract returns cover exactly the pixels of rect that lie
\* in no cover, and their areas plus the area of rect inside the covers add up
\* to rect.w * rect.h; the same for the uncovered regions of every window of
\* a pass against the `covered` list it was processed with.
C1_Partition ==
    /\ (InSub /\ Positive(rect) /\ AllPositive(sub_covered))
          => /\ Partitions(remaining, rect, sub_covered)
             /\ rect_subtract(rect, sub_covered) = remaining
    /\ \A i \in 1..Len(passed) :
          Partitions(passed[i].uncovered_regions, passed[i].geometry, passed[i].covering)
    /\ \A i \in 1..Len(visible_windows) :
          \E k \in 1..Len(passed) :
             /\ passed[k].id = visible_windows[i].id
             /\ passed[k].geometry = visible_windows[i].geometry
             /\ passed[k].uncovered_regions = visible_windows[i].uncovered_regions

\* Two covers that overlap each other and rect have been subtracted and left
\* several pieces.
C1_Witness ==
    /\ InSub
    /\ Positive(rect)
    /\ Len(sub_covered) = 2
    /\ AllPositive(sub_covered)
    /\ rect_intersect(sub_covered[1], sub_covered[2]) # None
    /\ rect_intersect(rect, sub_covered[1]) # None
    /\ rect_intersect(rect, sub_covered[2]) # None
    /\ ~Inside(sub_covered[1], rect)
    /\ Len(remaining) >= 3

\* C2 (disjointness): after every iteration of the outer loop of
\* rect_subtract on a non-degenerate rect, any two distinct entries of the
\* working list have no rect_intersect and share no pixel; the same for every
\* emitted window's uncovered regions.
C2_Disjoint ==
    /\ (InSub /\ Positive(rect))
          => /\ PairwiseApart(remaining)
             /\ \A i, j \in 1..Len(remaining) :
                   i # j => Pixels(remaining[i]) \cap Pixels(remaining[j]) = {}
    /\ \A i \in 1..Len(visible_windows) :
          PairwiseApart(visible_windows[i].uncovered_regions)

\* A cover strictly inside rect has left four strips, and a second cover has
\* cut them again.
C2_Witness ==
    /\ InSub
    /\ Len(sub_covered) = 2
    /\ Len(SubtractStep(<<rect>>, sub_covered[1])) = 4
    /\ Len(remaining) >= 4
    /\ remaining # SubtractStep(<<rect>>, sub_covered[1])

\* C3 (containment): every uncovered region of an emitted window has w > 0 and
\* h > 0 and lies inside that window's geometry.
C3_Contained ==
    \A i \in 1..Len(visible_windows) :
       \A k \in 1..Len(visible_windows[i].uncovered_regions) :
          /\ Positive(visible_windows[i].uncovered_regions[k])
          /\ Inside(visible_windows[i].uncovered_regions[k], visible_windows[i].geometry)

\* A window partly hidden by two earlier ones has been emitted with several
\* regions.
C3_Witness ==
    /\ InPipe
    /\ Len(visible_windows) = 3
    /\ Len(visible_windows[3].uncovered_regions) >= 2
    /\ rect_intersect(visible_windows[3].geometry, visible_windows[1].geometry) # None
    /\ rect_intersect(visible_windows[3].geometry, visible_windows[2].geometry) # None

Blank(t) == Strip(t) = <<>>

EmittedIds == { visible_windows[i].id : i \in 1..Len(visible_windows) }

C5_FullOcclusion ==
    /\ (InSub /\ Positive(rect))
          => (remaining = <<>> <=> Pixels(rect) \subseteq PixelsOf(sub_covered))
    /\ \A k \in 1..Len(passed) :
          (Pixels(passed[k].geometry) \subseteq PixelsOf(passed[k].covering))
             <=> passed[k].id \notin EmittedIds
    /\ \A i \in 1..Len(visible_windows) : visible_windows[i].uncovered_regions # <<>>

\* rect is hidden by two covers together, neither of which contains it; and,
\* in a pass, so is a window by the two windows emitted before it.
C5_WitnessSub ==
    /\ InSub
    /\ Positive(rect)
    /\ Len(sub_covered) = 2
    /\ ~Inside(rect, sub_covered[1])
    /\ ~Inside(rect, sub_covered[2])
    /\ remaining = <<>>

C5_WitnessPipe ==
    /\ InPipe
    /\ Len(passed) = 3
    /\ Len(visible_windows) = 2
    /\ passed[3].uncovered_regions = <<>>
    /\ ~Inside(passed[3].geometry, passed[3].covering[1])
    /\ ~Inside(passed[3].geometry, passed[3].covering[2])

\* The rectangles a call of rect_subtract has been given.
SubArgs == {rect} \cup { sub_covered[i] : i \in 1..Len(sub_covered) }

\* C6 (rect_intersect): rect_intersect(a, b) is None exactly when a and b
\* share no pixel (so also when they only touch); otherwise it is the
\* rectangle {x1, y1, x2-x1, y2-y1} of the max/min corners, has w > 0 and
\* h > 0, holds exactly the pixels common to a and b, lies inside both, and
\* equals rect_intersect(b, a).
C6_Intersect ==
    InSub =>
      \A a, b \in SubArgs :
         LET i == rect_intersect(a, b)
             x1 == Max(a.x, b.x)
             y1 == Max(a.y, b.y)
             x2 == Min(a.x + a.w, b.x + b.w)
             y2 == Min(a.y + a.h, b.y + b.h)
         IN  /\ i = rect_intersect(b, a)
             /\ (i = None) <=> (Pixels(a) \cap Pixels(b) = {})
             /\ (i # None) <=> (x1 < x2 /\ y1 < y2)
             /\ i # None =>
                   /\ Len(i) = 1
                   /\ i[1] = Rect(x1, y1, x2 - x1, y2 - y1)
                   /\ Positive(i[1])
                   /\ Pixels(i[1]) = Pixels(a) \cap Pixels(b)
                   /\ Inside(i[1], a)
                   /\ Inside(i[1], b)

\* b starts where a ends on the x axis, and they overlap on the y axis (edge)
\* or b also starts where a ends on the y axis (corner).
TouchesEdge(a, b) ==
    /\ Positive(a) /\ Positive(b)
    /\ a.x + a.w = b.x
    /\ Max(a.y, b.y) < Min(a.y + a.h, b.y + b.h)

TouchesCorner(a, b) ==
    /\ Positive(a) /\ Positive(b)
    /\ a.x + a.w = b.x
    /\ a.y + a.h = b.y

\* rect has been given one cover that touches it along an edge (or at a
\* corner) and one that overlaps it.
C6_Witness ==
    /\ InSub
    /\ Len(sub_covered) = 2
    /\ TouchesEdge(rect, sub_covered[1]) \/ TouchesCorner(rect, sub_covered[1])
    /\ rect_intersect(rect, sub_covered[1]) = None
    /\ rect_intersect(rect, sub_covered[2]) # None
    /\ ~Inside(sub_covered[2], rect)
    /\ ~Inside(rect, sub_covered[2])

\* C7 (pass-through): rect_subtract(r, []) is [r] for every r; for a
\* non-degenerate r that no cover intersects, rect_subtract(r, covered) is
\* [r]; and a window that intersects no window emitted before it reports the
\* single region equal to its geometry.
C7_PassThrough ==
    /\ InSub =>
          /\ rect_subtract(rect, <<>>) = <<rect>>
          /\ sub_covered = <<>> => remaining = <<rect>>
          /\ (Positive(rect)
              /\ \A i \in 1..Len(sub_covered) : rect_intersect(rect, sub_covered[i]) = None)
                => /\ remaining = <<rect>>
                   /\ rect_subtract(rect, sub_covered) = <<rect>>
    /\ \A k \in 1..Len(passed) :
          (\A i \in 1..Len(passed[k].covering) :
              rect_intersect(passed[k].geometry, passed[k].covering[i]) = None)
            => /\ passed[k].uncovered_regions = <<passed[k].geometry>>
               /\ \E i \in 1..Len(visible_windows) :
                     /\ visible_windows[i].id = passed[k].id
                     /\ visible_windows[i].uncovered_regions = <<passed[k].geometry>>

\* Two non-degenerate covers, one of them touching rect, have left rect
\* whole.
C7_WitnessCovers ==
    /\ InSub
    /\ Positive(rect)
    /\ Len(sub_covered) = 2
    /\ AllPositive(sub_covered)
    /\ TouchesEdge(rect, sub_covered[1])
    /\ remaining = <<rect>>

\* Two windows that do not overlap have both been emitted whole.
C7_WitnessPipe ==
    /\ InPipe
    /\ Len(visible_windows) = 2
    /\ rect_intersect(visible_windows[1].geometry, visible_windows[2].geometry) = None
    /\ visible_windows[2].uncovered_regions = <<visible_windows[2].geometry>>

Geometries(ws) == [i \in 1..Len(ws) |-> ws[i].geometry]

Emitted(p) == p.uncovered_regions # <<>>

\* id, geometry and regions of an entry or of a history record.
Outcome(e) ==
    [id |-> e.id, geometry |-> e.geometry, uncovered_regions |-> e.uncovered_regions]

Outcomes(ws) == [i \in 1..Len(ws) |-> Outcome(ws[i])]

C8_State ==
    /\ seen = 0 => covered = <<>> /\ visible_windows = <<>>
    /\ covered = Geometries(visible_windows)
    /\ Outcomes(visible_windows) = Outcomes(SelectSeq(passed, Emitted))

C8_Step ==
    /\ IsPrefix(covered, covered')
    /\ IsPrefix(visible_windows, visible_windows')
    /\ Len(covered') <= Len(covered) + 1
    /\ IF passed' # passed /\ Emitted(passed'[Len(passed')])
       THEN /\ covered' = Append(covered, passed'[Len(passed')].geometry)
            /\ Len(visible_windows') = Len(visible_windows) + 1
       ELSE /\ covered' = covered
            /\ visible_windows' = visible_windows

RECURSIVE ReferencePass(_, _, _)
ReferencePass(ps, covering, out) ==
    IF ps = <<>>
    THEN out
    ELSE LET u == rect_subtract(Head(ps).geometry, covering)
         IN  ReferencePass(Tail(ps), Append(covering, Head(ps).geometry),
                           IF u # <<>>
                           THEN Append(out, [id |-> Head(ps).id,
                                             geometry |-> Head(ps).geometry,
                                             uncovered_regions |-> u])
                           ELSE out)

\* C9 (all earlier windows): the windows emitted and the regions of each are
\* those of the reference pass, in which fully occluded windows cover too.
C9_SameAsReference ==
    InPipe => Outcomes(visible_windows) = ReferencePass(passed, <<>>, <<>>)

\* A fully hidden window was followed by an emitted window that overlaps it
\* and is itself partly hidden.
C9_Witness ==
    /\ InPipe
    /\ \E k \in 1..Len(passed) :
          /\ ~Emitted(passed[k])
          /\ k < Len(passed)
          /\ Emitted(passed[Len(passed)])
          /\ rect_intersect(passed[k].geometry, passed[Len(passed)].geometry) # None
          /\ passed[Len(passed)].uncovered_regions # <<passed[Len(passed)].geometry>>

RECURSIVE Pow(_, _)
Pow(b, e) == IF e = 0 THEN 1 ELSE b * Pow(b, e - 1)

\* The four strips as the specification describes them, around the
\* intersection i of r: top and bottom over the full width of r, left and
\* right over the band of i.
StripRegions(r, i) ==
    << Rect(r.x, r.y, r.w, i.y - r.y),
       Rect(r.x, i.y + i.h, r.w, (r.y + r.h) - (i.y + i.h)),
       Rect(r.x, i.y, i.x - r.x, i.h),
       Rect(i.x + i.w, i.y, (r.x + r.w) - (i.x + i.w), i.h) >>

\* C10 (single step): for a working rectangle r and the next cover c, when
\* they intersect, the inner loop appends at most four strips, in the order top, bottom, left,
\* right; they are the non-empty ones among the four regions above, each has
\* w > 0 and h > 0 before the filter, and they hold every pixel of r outside
\* c exactly once.  After k covers the working list has at most 4^k entries.
C10_Strips ==
    (InSub /\ sub_covered # <<>>) =>
      LET k == Len(sub_covered)
          c == sub_covered[k]
          before == rect_subtract(rect, SubSeq(sub_covered, 1, k - 1))
      IN  /\ Len(remaining) <= Pow(4, k)
          /\ \A n \in 1..Len(before) :
                LET r == before[n]
                    i == rect_intersect(r, c)
                    strips == SubtractPiece(r, c)
                IN  i # None =>
                      /\ Len(strips) <= 4
                      /\ strips = SelectSeq(StripRegions(r, i[1]), Positive)
                      /\ AllPositive(strips)
                      /\ SubtractStep(<<r>>, c) = strips
                      /\ Partitions(strips, r, <<c>>)

\* A cover strictly inside rect has produced all four strips, and a second
\* cover has been applied to them.
C10_Witness ==
    /\ InSub
    /\ Len(sub_covered) = 2
    /\ Len(SubtractPiece(rect, sub_covered[1])) = 4
    /\ Len(remaining) > 4

====
